---- MODULE Spec2Model ----
(***************************************************************************)
(* CollaborativeDrawingBoard (src/src/App.tsx): a React component whose    *)
(* state is the local action list, the undone stack, the gesture buffer    *)
(* and the control settings, wired to a replicated record set              *)
(* (db.useQuery / db.transact).  Every participant runs one instance.      *)
(*                                                                         *)
(* One action per event handler.  React re-renders between two events, so  *)
(* a handler reads the state left by the previous one; the functional      *)
(* updates setX(prev => ...) and the plain ones therefore agree, and a     *)
(* handler together with the effects its re-render triggers is one step.   *)
(* A handler that returns at once (a guard that fails) is a step that      *)
(* changes no program variable.  The one effect that is a step of its own  *)
(* is loadingEffect: before the first query result the effect of line 71   *)
(* re-runs after every render, its own included, whatever the handlers do. *)
(*                                                                         *)
(* The replicated set is asynchronous: a transaction is in flight          *)
(* (pending) until it is applied or fails, and a delivered snapshot is the *)
(* shared set at the time of delivery.                                     *)
(*                                                                         *)
(* The canvas is the sequence of segments painted since the last           *)
(* clearRect, together with the current path of its 2D context.            *)
(*                                                                         *)
(* Spec runs the handlers of one participant next to a record another      *)
(* participant committed; FairSpec runs every participant's handlers for a *)
(* few calls and lets the replication layer apply and deliver fairly.      *)
(***************************************************************************)
EXTENDS Integers, Sequences, FiniteSets, TLC

\* ---------------------------------------------------------------- bounds
MaxSteps == 7      \* how many events (handler calls, deliveries) one run has
MaxIds == 2        \* how many records id() hands out in one run
MaxPath == 2       \* how many points a gesture accumulates
MaxPending == 1    \* how many transactions of one client are in flight
MaxUndone == 2     \* how many records the undone stack holds
MaxOps == 2        \* how many handler calls the participants make in FairSpec

\* ---------------------------------------------------------------- inputs
Clients == {"a", "b"}
Points == {[x |-> 10, y |-> 10], [x |-> 20, y |-> 10]}
Colors == {"#000000", "#ff0000"}
ThicknessValues == {5, 30}

\* A record another participant committed before this run: what the shared
\* set may hold when the component mounts.
Remote1 ==
    [id |-> 101, type |-> "draw", paths |-> <<<<[x |-> 20, y |-> 10]>>>>,
     color |-> "#ff0000", thickness |-> 30]

InitialStores == {<<>>, <<Remote1>>}

\* The participants whose handlers run in Spec.
Local == {"a"}

VARIABLES
    isDrawing,       \* useState(false), line 21
    color,           \* useState('#000000'), line 22
    thickness,       \* useState(5), line 23
    isEraser,        \* useState(false), line 24
    localActions,    \* useState<DrawingAction[]>([]), line 25
    undoneActions,   \* useState<DrawingAction[]>([]), line 26
    currentPath,     \* currentPathRef.current, line 27
    isLoading,       \* data is still undefined (line 29: no query result yet)
    data,            \* data.drawingActions, the last delivered snapshot, line 29
    store,           \* the replicated record set behind db (line 17)
    pending,         \* db.transact calls of each client not yet applied
    nextId,          \* the next value id() returns
    canvas,          \* what is painted on the <canvas> of line 168 since its last clearRect
    ctxPath,         \* the current path of the canvas's 2D context
    steps            \* the events handled so far (bounds the run, not program state)

vars == <<isDrawing, color, thickness, isEraser, localActions, undoneActions,
          currentPath, isLoading, data, store, pending, nextId, canvas, ctxPath>>

allVars == <<vars, steps>>

local == <<isDrawing, color, thickness, isEraser, localActions, undoneActions,
           currentPath>>

painted == <<canvas, ctxPath>>

\* ------------------------------------------------------- record values
\* tx.drawingActions[id].update(value) and tx.drawingActions[id].delete()
Update(rec) == [op |-> "update", id |-> rec.id, value |-> rec]

Delete(i) == [op |-> "delete", id |-> i]

\* const drawingActions = data?.drawingActions || []
drawingActions(c) == IF isLoading[c] THEN <<>> ELSE data[c]

\* Mutant: the record keeps the array of currentPathRef itself and the
\* buffer is emptied in place, so the committed path ends up empty.
newAction_aliasedPath(c, i) ==
    [id |-> i,
     type |-> IF isEraser[c] THEN "erase" ELSE "draw",
     paths |-> << <<>> >>,
     color |-> IF isEraser[c] THEN "#FFFFFF" ELSE color[c],
     thickness |-> thickness[c]]

\* newAction of stopDrawing
newAction(c, i) ==
    [id |-> i,
     type |-> IF isEraser[c] THEN "erase" ELSE "draw",
     paths |-> <<currentPath[c]>>,
     color |-> IF isEraser[c] THEN "#FFFFFF" ELSE color[c],
     thickness |-> thickness[c]]

\* clearAction of clearCanvas
clearAction(i) == [id |-> i, type |-> "clear", paths |-> <<>>]

\* prev.slice(0, -1)
SliceLast(s) == SubSeq(s, 1, Len(s) - 1)

\* s[s.length - 1]
Last(s) == s[Len(s)]

\* db.transact(...): the transaction leaves the client and is in flight
transact(c, t) == pending' = [pending EXCEPT ![c] = Append(@, t)]

Ids(s) == {s[k].id : k \in 1..Len(s)}

\* ------------------------------------------------------------ the canvas
\* The surface is the sequence of line segments painted since the last
\* clearRect, oldest first; paint is opaque, so painting a segment that is
\* already there only brings it to the top.  The context is the surface
\* together with the context's current path (beginPath / moveTo / lineTo).
segment(p, q, style, width) ==
    [from |-> p, to |-> q, strokeStyle |-> style, lineWidth |-> width]

\* context.stroke() with lineCap = lineJoin = 'round' (lines 36-37, 88-89):
\* the segments between consecutive points of the current path. A segment
\* of length zero is a dot, hidden under the round cap of a segment next to
\* it; a path whose points are all the same is that one dot, and a path
\* that only has its moveTo paints nothing.
strokeSegments(path, style, width) ==
    LET all == [k \in 1..(Len(path) - 1) |->
                   segment(path[k], path[k + 1], style, width)]
        lines == SelectSeq(all, LAMBDA s : s.from # s.to)
    IN IF Len(path) < 2 THEN <<>>
       ELSE IF lines = <<>> THEN <<all[1]>>
       ELSE lines

RECURSIVE paint(_, _)
paint(surface, segs) ==
    IF segs = <<>> THEN surface
    ELSE paint(Append(SelectSeq(surface, LAMBDA s : s # Head(segs)), Head(segs)),
               Tail(segs))

stroke(ctx, style, width) ==
    [surface |-> paint(ctx.surface, strokeSegments(ctx.path, style, width)),
     path |-> ctx.path]

\* action.paths.forEach((path) => { if (path.length > 0) { beginPath();
\* moveTo(path[0]); path.forEach(lineTo); strokeStyle; lineWidth; stroke() } })
RECURSIVE strokePaths(_, _, _, _)
strokePaths(ctx, paths, style, width) ==
    IF paths = <<>> THEN ctx
    ELSE LET path == Head(paths)
             next == IF Len(path) > 0
                     THEN stroke([surface |-> ctx.surface,
                                  path |-> <<path[1]>> \o path], style, width)
                     ELSE ctx
         IN strokePaths(next, Tail(paths), style, width)

\* actions.forEach(...) of redrawCanvas, lines 49-66; col and thick are the
\* color and thickness the callback closed over
RECURSIVE replay(_, _, _, _)
replay(ctx, actions, col, thick) ==
    IF actions = <<>> THEN ctx
    ELSE LET action == Head(actions)
             style == IF action.type = "erase" THEN "#FFFFFF"
                      ELSE IF "color" \in DOMAIN action THEN action.color
                      ELSE col
             width == IF "thickness" \in DOMAIN action THEN action.thickness
                      ELSE thick
             next == IF action.type \in {"draw", "erase"}
                     THEN strokePaths(ctx, action.paths, style, width)
                     ELSE IF action.type = "clear"
                          THEN [surface |-> <<>>, path |-> ctx.path]
                          ELSE ctx
         IN replay(next, Tail(actions), col, thick)

\* Mutant: a clear record is skipped by the replay instead of clearing.
render_ignoreClear(path, actions, col, thick) ==
    replay([surface |-> <<>>, path |-> path],
           SelectSeq(actions, LAMBDA a : a.type # "clear"), col, thick)

\* redrawCanvas(actions) as a function: clearRect, then the replay; the
\* context's current path is what it was unless a stroke replaced it
render(path, actions, col, thick) ==
    replay([surface |-> <<>>, path |-> path], actions, col, thick)

\* redrawCanvas(actions) on the canvas of client c
redrawCanvas(c, actions, col, thick) ==
    LET r == render(ctxPath[c], actions, col, thick)
    IN /\ canvas' = [canvas EXCEPT ![c] = r.surface]
       /\ ctxPath' = [ctxPath EXCEPT ![c] = r.path]

\* ------------------------------------------------------------- Init
Init ==
    /\ isDrawing = [c \in Clients |-> FALSE]
    /\ color = [c \in Clients |-> "#000000"]
    /\ thickness = [c \in Clients |-> 5]
    /\ isEraser = [c \in Clients |-> FALSE]
    /\ localActions = [c \in Clients |-> <<>>]
    /\ undoneActions = [c \in Clients |-> <<>>]
    /\ currentPath = [c \in Clients |-> <<>>]
    /\ isLoading = [c \in Clients |-> TRUE]
    /\ data = [c \in Clients |-> <<>>]
    /\ store \in InitialStores
    /\ pending = [c \in Clients |-> <<>>]
    /\ nextId = 1
    /\ canvas = [c \in Clients |-> <<>>]
    /\ ctxPath = [c \in Clients |-> <<>>]
    /\ steps = 0

\* ------------------------------------------------- the effect of line 71
\* useEffect(() => { setLocalActions(drawingActions); redrawCanvas(...) },
\*           [drawingActions, redrawCanvas])
\* runs when the snapshot is a new array or redrawCanvas is a new callback.
\* Mutant: the snapshot is merged into localActions instead of replacing it.
authoritativeUpdate_merge(c, snapshot) ==
    localActions' = [localActions EXCEPT
                       ![c] = @ \o SelectSeq(snapshot,
                                             LAMBDA r : r.id \notin Ids(localActions[c]))]

\* Mutant: a snapshot shorter than localActions is taken for a stale one
\* and dropped.
authoritativeUpdate_neverShrink(c, snapshot) ==
    localActions' = [localActions EXCEPT
                       ![c] = IF Len(snapshot) >= Len(@) THEN snapshot ELSE @]

authoritativeUpdate(c, snapshot) ==
    localActions' = [localActions EXCEPT ![c] = snapshot]

\* ------------------------------------------------------- pointer input
\* Mutant: the record is pushed optimistically as soon as the gesture opens.
startDrawing_eagerPush(c, p) ==
    /\ isDrawing' = [isDrawing EXCEPT ![c] = TRUE]
    /\ currentPath' = [currentPath EXCEPT ![c] = <<p>>]
    /\ ctxPath' = [ctxPath EXCEPT ![c] = <<p>>]
    /\ Len(pending[c]) < MaxPending
    /\ transact(c, Update([id |-> nextId,
                           type |-> IF isEraser[c] THEN "erase" ELSE "draw",
                           paths |-> << <<p>> >>,
                           color |-> IF isEraser[c] THEN "#FFFFFF" ELSE color[c],
                           thickness |-> thickness[c]]))
    /\ UNCHANGED <<color, thickness, isEraser, localActions, undoneActions,
                   isLoading, data, store, nextId, canvas>>

startDrawing(c, p) ==
    /\ isDrawing' = [isDrawing EXCEPT ![c] = TRUE]
    /\ currentPath' = [currentPath EXCEPT ![c] = <<p>>]
    /\ ctxPath' = [ctxPath EXCEPT ![c] = <<p>>]
    /\ UNCHANGED <<color, thickness, isEraser, localActions, undoneActions,
                   isLoading, data, store, pending, nextId, canvas>>

\* Mutant: the point is put in front of the buffer (unshift for push).
draw_unshift(c, p) ==
    IF ~isDrawing[c]
    THEN UNCHANGED vars
    ELSE /\ Len(currentPath[c]) < MaxPath
         /\ currentPath' = [currentPath EXCEPT ![c] = <<p>> \o @]
         /\ ctxPath' = [ctxPath EXCEPT ![c] = Append(@, p)]
         /\ canvas' = [canvas EXCEPT
                         ![c] = stroke([surface |-> @, path |-> ctxPath'[c]],
                                       IF isEraser[c] THEN "#FFFFFF" ELSE color[c],
                                       thickness[c]).surface]
         /\ UNCHANGED <<isDrawing, color, thickness, isEraser, localActions,
                        undoneActions, isLoading, data, store, pending, nextId>>

\* Mutant: the `if (!isDrawing) return` of line 94 is missing.
draw_noGuard(c, p) ==
    /\ Len(currentPath[c]) < MaxPath
    /\ currentPath' = [currentPath EXCEPT ![c] = Append(@, p)]
    /\ ctxPath' = [ctxPath EXCEPT ![c] = Append(@, p)]
    /\ canvas' = [canvas EXCEPT
                    ![c] = stroke([surface |-> @, path |-> ctxPath'[c]],
                                  IF isEraser[c] THEN "#FFFFFF" ELSE color[c],
                                  thickness[c]).surface]
    /\ UNCHANGED <<isDrawing, color, thickness, isEraser, localActions,
                   undoneActions, isLoading, data, store, pending, nextId>>

draw(c, p) ==
    IF ~isDrawing[c]
    THEN UNCHANGED vars
    ELSE /\ Len(currentPath[c]) < MaxPath
         /\ currentPath' = [currentPath EXCEPT ![c] = Append(@, p)]
         /\ ctxPath' = [ctxPath EXCEPT ![c] = Append(@, p)]
         /\ canvas' = [canvas EXCEPT
                         ![c] = stroke([surface |-> @, path |-> ctxPath'[c]],
                                       IF isEraser[c] THEN "#FFFFFF" ELSE color[c],
                                       thickness[c]).surface]
         /\ UNCHANGED <<isDrawing, color, thickness, isEraser, localActions,
                        undoneActions, isLoading, data, store, pending, nextId>>

\* Mutant: the setUndoneActions([]) of line 123 is missing.
stopDrawing_keepUndone(c) ==
    IF isDrawing[c]
    THEN /\ isDrawing' = [isDrawing EXCEPT ![c] = FALSE]
         /\ IF Len(currentPath[c]) > 0
            THEN /\ nextId <= MaxIds
                 /\ Len(pending[c]) < MaxPending
                 /\ localActions' = [localActions EXCEPT
                                       ![c] = Append(@, newAction(c, nextId))]
                 /\ transact(c, Update(newAction(c, nextId)))
                 /\ nextId' = nextId + 1
                 /\ UNCHANGED undoneActions
            ELSE UNCHANGED <<localActions, undoneActions, pending, nextId>>
         /\ currentPath' = [currentPath EXCEPT ![c] = <<>>]
         /\ UNCHANGED <<color, thickness, isEraser, isLoading, data, store, painted>>
    ELSE UNCHANGED vars

stopDrawing(c) ==
    IF isDrawing[c]
    THEN /\ isDrawing' = [isDrawing EXCEPT ![c] = FALSE]
         /\ IF Len(currentPath[c]) > 0
            THEN /\ nextId <= MaxIds
                 /\ Len(pending[c]) < MaxPending
                 /\ localActions' = [localActions EXCEPT
                                       ![c] = Append(@, newAction(c, nextId))]
                 /\ undoneActions' = [undoneActions EXCEPT ![c] = <<>>]
                 /\ transact(c, Update(newAction(c, nextId)))
                 /\ nextId' = nextId + 1
            ELSE UNCHANGED <<localActions, undoneActions, pending, nextId>>
         /\ currentPath' = [currentPath EXCEPT ![c] = <<>>]
         /\ UNCHANGED <<color, thickness, isEraser, isLoading, data, store, painted>>
    ELSE UNCHANGED vars

\* ------------------------------------------------------ control surface
\* Mutant: the Clear record replaces localActions instead of being appended.
clearCanvas_replace(c) ==
    /\ nextId <= MaxIds
    /\ Len(pending[c]) < MaxPending
    /\ localActions' = [localActions EXCEPT ![c] = <<clearAction(nextId)>>]
    /\ undoneActions' = [undoneActions EXCEPT ![c] = <<>>]
    /\ transact(c, Update(clearAction(nextId)))
    /\ redrawCanvas(c, <<clearAction(nextId)>>, color[c], thickness[c])
    /\ nextId' = nextId + 1
    /\ UNCHANGED <<isDrawing, color, thickness, isEraser, currentPath,
                   isLoading, data, store>>

clearCanvas(c) ==
    /\ nextId <= MaxIds
    /\ Len(pending[c]) < MaxPending
    /\ localActions' = [localActions EXCEPT ![c] = Append(@, clearAction(nextId))]
    /\ undoneActions' = [undoneActions EXCEPT ![c] = <<>>]
    /\ transact(c, Update(clearAction(nextId)))
    /\ redrawCanvas(c, <<clearAction(nextId)>>, color[c], thickness[c])
    /\ nextId' = nextId + 1
    /\ UNCHANGED <<isDrawing, color, thickness, isEraser, currentPath,
                   isLoading, data, store>>

toggleEraser(c) ==
    /\ isEraser' = [isEraser EXCEPT ![c] = ~isEraser[c]]
    /\ UNCHANGED <<isDrawing, color, thickness, localActions, undoneActions,
                   currentPath, isLoading, data, store, pending, nextId, painted>>

\* Mutant: undo takes the first record instead of the last.
undoResult_first(la, ua) ==
    [localActions |-> Tail(la),
     undoneActions |-> Append(ua, Head(la)),
     tx |-> Delete(Head(la).id)]

\* the three state changes of undo, as values
undoResult(la, ua) ==
    [localActions |-> SliceLast(la),
     undoneActions |-> Append(ua, Last(la)),
     tx |-> Delete(Last(la).id)]

\* Mutant: the `if (localActions.length > 0)` of line 147 is missing. With
\* nothing to undo, lastAction is undefined: the two setters still run and
\* lastAction.id then throws before db.transact.
undo_noGuard(c) ==
    LET la == localActions[c]
        lastAction == IF Len(la) > 0 THEN Last(la)
                      ELSE [id |-> 0, type |-> "undefined", paths |-> <<>>]
    IN /\ Len(pending[c]) < MaxPending
       /\ Len(undoneActions[c]) < MaxUndone
       /\ localActions' = [localActions EXCEPT
                             ![c] = IF Len(la) > 0 THEN SliceLast(la) ELSE <<>>]
       /\ undoneActions' = [undoneActions EXCEPT ![c] = Append(@, lastAction)]
       /\ redrawCanvas(c, IF Len(la) > 0 THEN SliceLast(la) ELSE <<>>,
                        color[c], thickness[c])
       /\ IF Len(la) > 0
          THEN transact(c, Delete(lastAction.id))
          ELSE UNCHANGED pending
       /\ UNCHANGED <<isDrawing, color, thickness, isEraser, currentPath,
                      isLoading, data, store, nextId>>

undo(c) ==
    IF Len(localActions[c]) > 0
    THEN LET r == undoResult(localActions[c], undoneActions[c])
         IN /\ Len(pending[c]) < MaxPending
            /\ Len(undoneActions[c]) < MaxUndone
            /\ localActions' = [localActions EXCEPT ![c] = r.localActions]
            /\ undoneActions' = [undoneActions EXCEPT ![c] = r.undoneActions]
            /\ redrawCanvas(c, SliceLast(localActions[c]), color[c], thickness[c])
            /\ transact(c, r.tx)
            /\ UNCHANGED <<isDrawing, color, thickness, isEraser, currentPath,
                           isLoading, data, store, nextId>>
    ELSE UNCHANGED vars

\* Mutant: redo puts the record at the head of localActions.
redoResult_prepend(la, ua) ==
    [undoneActions |-> SliceLast(ua),
     localActions |-> <<Last(ua)>> \o la,
     tx |-> Update(Last(ua))]

\* the three state changes of redo, as values
redoResult(la, ua) ==
    [undoneActions |-> SliceLast(ua),
     localActions |-> Append(la, Last(ua)),
     tx |-> Update(Last(ua))]

redo(c) ==
    IF Len(undoneActions[c]) > 0
    THEN LET r == redoResult(localActions[c], undoneActions[c])
         IN /\ Len(pending[c]) < MaxPending
            /\ undoneActions' = [undoneActions EXCEPT ![c] = r.undoneActions]
            /\ localActions' = [localActions EXCEPT ![c] = r.localActions]
            /\ redrawCanvas(c, Append(localActions[c], Last(undoneActions[c])),
                             color[c], thickness[c])
            /\ transact(c, r.tx)
            /\ UNCHANGED <<isDrawing, color, thickness, isEraser, currentPath,
                           isLoading, data, store, nextId>>
    ELSE UNCHANGED vars

\* onChange={(e) => setColor(e.target.value)}: a new colour re-creates
\* redrawCanvas (its dependency list is [color, thickness]), and the effect of
\* line 71, which depends on redrawCanvas, runs again.
setColor(c, v) ==
    /\ color' = [color EXCEPT ![c] = v]
    /\ IF v # color[c]
       THEN /\ authoritativeUpdate(c, drawingActions(c))
            /\ redrawCanvas(c, drawingActions(c), v, thickness[c])
       ELSE UNCHANGED <<localActions, painted>>
    /\ UNCHANGED <<isDrawing, thickness, isEraser, undoneActions, currentPath,
                   isLoading, data, store, pending, nextId>>

\* onValueChange={(values) => setThickness(values[0])}
setThickness(c, v) ==
    /\ thickness' = [thickness EXCEPT ![c] = v]
    /\ IF v # thickness[c]
       THEN /\ authoritativeUpdate(c, drawingActions(c))
            /\ redrawCanvas(c, drawingActions(c), color[c], v)
       ELSE UNCHANGED <<localActions, painted>>
    /\ UNCHANGED <<isDrawing, color, isEraser, undoneActions, currentPath,
                   isLoading, data, store, pending, nextId>>

\* ---------------------------------------------------- replication layer
\* update: upsert by id; delete: remove by id
applyTx(s, t) ==
    IF t.op = "delete"
    THEN SelectSeq(s, LAMBDA r : r.id # t.id)
    ELSE IF t.id \in Ids(s)
         THEN [k \in 1..Len(s) |-> IF s[k].id = t.id THEN t.value ELSE s[k]]
         ELSE Append(s, t.value)

\* the oldest transaction in flight of client c reaches the shared set
transactApplied(c) ==
    /\ pending[c] # <<>>
    /\ store' = applyTx(store, Head(pending[c]))
    /\ pending' = [pending EXCEPT ![c] = Tail(@)]
    /\ UNCHANGED <<local, isLoading, data, nextId, painted>>

\* Mutant: a handler on the rejected promise takes the record of a failed
\* update out of localActions again.
transactRejected_rollback(c) ==
    /\ localActions' = [localActions EXCEPT
                          ![c] = IF Head(pending[c]).op = "update"
                                 THEN SelectSeq(@, LAMBDA r : r.id # Head(pending[c]).id)
                                 ELSE @]
    /\ UNCHANGED <<isDrawing, color, thickness, isEraser, undoneActions,
                   currentPath, painted>>

\* db.transact(...) is called as a statement (lines 124, 138, 152, 162): its
\* promise is neither awaited nor caught, so a rejection reaches no code of
\* the component.
transactRejected(c) == UNCHANGED <<local, painted>>

\* the oldest transaction in flight of client c fails and is dropped
transactFailed(c) ==
    /\ pending[c] # <<>>
    /\ pending' = [pending EXCEPT ![c] = Tail(@)]
    /\ transactRejected(c)
    /\ UNCHANGED <<isLoading, data, store, nextId>>

\* Mutant: the effect also starts the gesture buffer afresh.
snapshotDelivered_resetGesture(c) ==
    /\ isLoading' = [isLoading EXCEPT ![c] = FALSE]
    /\ data' = [data EXCEPT ![c] = store]
    /\ authoritativeUpdate(c, store)
    /\ redrawCanvas(c, store, color[c], thickness[c])
    /\ currentPath' = [currentPath EXCEPT ![c] = <<>>]
    /\ UNCHANGED <<isDrawing, color, thickness, isEraser, undoneActions,
                   store, pending, nextId>>

\* db.useQuery hands client c the current record set as a new array; the
\* effect of line 71 runs with it.
snapshotDelivered(c) ==
    /\ isLoading' = [isLoading EXCEPT ![c] = FALSE]
    /\ data' = [data EXCEPT ![c] = store]
    /\ authoritativeUpdate(c, store)
    /\ redrawCanvas(c, store, color[c], thickness[c])
    /\ UNCHANGED <<isDrawing, color, thickness, isEraser, undoneActions,
                   currentPath, store, pending, nextId>>

\* While data is undefined, `data?.drawingActions || []` is a new array on
\* every render, so the effect of line 71 runs after every render and sets
\* localActions to that empty array.
loadingEffect(c) ==
    /\ isLoading[c]
    /\ authoritativeUpdate(c, drawingActions(c))
    /\ redrawCanvas(c, drawingActions(c), color[c], thickness[c])
    /\ UNCHANGED <<isDrawing, color, thickness, isEraser, undoneActions,
                   currentPath, isLoading, data, store, pending, nextId>>

\* ------------------------------------------------------------- Next
\* one more event of a run of at most MaxSteps events
Tick == steps < MaxSteps /\ steps' = steps + 1

Next ==
    \E c \in Local :
        \/ \E p \in Points : Tick /\ startDrawing(c, p)
        \/ \E p \in Points : Tick /\ draw(c, p)
        \/ Tick /\ stopDrawing(c)
        \/ Tick /\ clearCanvas(c)
        \/ Tick /\ toggleEraser(c)
        \/ Tick /\ undo(c)
        \/ Tick /\ redo(c)
        \/ \E v \in Colors : Tick /\ setColor(c, v)
        \/ \E v \in ThicknessValues : Tick /\ setThickness(c, v)
        \/ Tick /\ transactApplied(c)
        \/ Tick /\ transactFailed(c)
        \/ Tick /\ snapshotDelivered(c)
        \/ Tick /\ loadingEffect(c)

Spec == Init /\ [][Next]_allVars

\* ------------------------------------------------- every participant acts
\* The participants make at most MaxOps handler calls between them and then
\* stop; the replication layer applies every transaction in flight (none
\* fails) and delivers the snapshot of the shared set to every subscriber.
Op == steps < MaxOps /\ steps' = steps + 1

Layer == UNCHANGED steps

FairNext ==
    \E c \in Clients :
        \/ \E p \in Points : Op /\ startDrawing(c, p)
        \/ \E p \in Points : Op /\ draw(c, p)
        \/ Op /\ stopDrawing(c)
        \/ Op /\ clearCanvas(c)
        \/ Op /\ toggleEraser(c)
        \/ Op /\ undo(c)
        \/ Op /\ redo(c)
        \/ \E v \in Colors : Op /\ setColor(c, v)
        \/ \E v \in ThicknessValues : Op /\ setThickness(c, v)
        \/ Layer /\ transactApplied(c)
        \/ Layer /\ snapshotDelivered(c)
        \/ Layer /\ loadingEffect(c)

Fairness ==
    \A c \in Clients :
        /\ WF_allVars(Layer /\ transactApplied(c))
        /\ WF_allVars(Layer /\ snapshotDelivered(c))

FairSpec == Init /\ [][FairNext]_allVars /\ Fairness

\* =================================================================
\* Properties
\* =================================================================
Records(c) == {pending[c][k].value : k \in {j \in 1..Len(pending[c]) : pending[c][j].op = "update"}}

\* every update in flight or applied, of any client
Pushed == {store[k] : k \in 1..Len(store)} \cup UNION {Records(c) : c \in Clients}

IsPrefix(s, t) == Len(s) <= Len(t) /\ SubSeq(t, 1, Len(s)) = s

\* a step of client c that closes an open gesture holding at least one point
GestureEnds(c) == isDrawing[c] /\ ~isDrawing'[c] /\ Len(currentPath[c]) > 0

C2_PathIsPointsInOrder ==
    [][\A c \in Clients :
         /\ \A p \in Points : startDrawing(c, p) => currentPath'[c] = <<p>>
         /\ \A p \in Points :
              (draw(c, p) /\ isDrawing[c]) =>
                  currentPath'[c] = Append(currentPath[c], p)
         /\ (isDrawing[c] /\ currentPath'[c] # currentPath[c]) =>
              \/ \E p \in Points : startDrawing(c, p) \/ draw(c, p)
              \/ ~isDrawing'[c]
         /\ GestureEnds(c) =>
              Last(localActions'[c]).paths = <<currentPath[c]>>]_vars

\* begin(10,10), extend(20,10), end: one record with path [(10,10),(20,10)]
C2_Witness ==
    \E c \in Clients :
        /\ localActions[c] # <<>>
        /\ Last(localActions[c]).type \in {"draw", "erase"}
        /\ Last(localActions[c]).paths =
              << <<[x |-> 10, y |-> 10], [x |-> 20, y |-> 10]>> >>
        /\ currentPath[c] = <<>>

\* the ids id() has handed out so far, and those of the other participants
Issued == (1..(nextId - 1)) \cup UNION {Ids(s) : s \in InitialStores}

\* C3: startDrawing and draw issue no update and no delete and leave the
\* shared set alone; the record of a gesture gets its id only when the
\* gesture ends, so nothing in the shared set or in flight carries an id that
\* has not been handed out yet.
C3_NoPushWhileGestureOpen ==
    /\ [][\A c \in Clients : \A p \in Points :
            (startDrawing(c, p) \/ draw(c, p)) =>
                (pending' = pending /\ store' = store)]_vars
    /\ [](\A r \in Pushed : r.id \in Issued)

\* a gesture is open with two points accumulated and nothing is in flight
C3_Witness ==
    \E c \in Clients :
        /\ isDrawing[c]
        /\ Len(currentPath[c]) = 2
        /\ pending[c] = <<>>
        /\ nextId = 1

\* C4: every draw or erase record that is in the shared set, in flight as an
\* update, or in some localActions or undoneActions has exactly one path
\* with at least one point.
HasPoint(r) ==
    r.type \in {"draw", "erase"} => (Len(r.paths) = 1 /\ Len(r.paths[1]) >= 1)

C4_NoEmptyStroke ==
    /\ \A r \in Pushed : HasPoint(r)
    /\ \A c \in Clients :
          /\ \A k \in 1..Len(localActions[c]) : HasPoint(localActions[c][k])
          /\ \A k \in 1..Len(undoneActions[c]) : HasPoint(undoneActions[c][k])

\* a stroke of this client has reached the shared set, and the same stroke
\* is in flight again after an undo and a redo
C4_Witness ==
    \E c \in Clients : \E k \in 1..Len(store) :
        /\ store[k].id < nextId
        /\ store[k].type \in {"draw", "erase"}
        /\ pending[c] = <<Update(store[k])>>

\* C5: undo on a non-empty localActions removes exactly its last record,
\* keeps the others in order, puts the removed record on top of
\* undoneActions and issues a delete of that record's id (no update).
C5_UndoRemovesTail ==
    [][\A c \in Clients :
         (undo(c) /\ Len(localActions[c]) > 0) =>
           /\ localActions'[c] = SubSeq(localActions[c], 1, Len(localActions[c]) - 1)
           /\ undoneActions'[c] =
                 Append(undoneActions[c], localActions[c][Len(localActions[c])])
           /\ pending'[c] =
                 Append(pending[c],
                        [op |-> "delete", id |-> localActions[c][Len(localActions[c])].id])
           /\ store' = store]_vars

\* active = [A, B, C] and one undo: A and B are still active in that order,
\* C is undone and its delete is in flight
C5_Witness ==
    \E c \in Clients :
        /\ Len(localActions[c]) = 2
        /\ localActions[c][1].id # localActions[c][2].id
        /\ Len(undoneActions[c]) = 1
        /\ undoneActions[c][1].id \notin Ids(localActions[c])
        /\ pending[c] = <<Delete(undoneActions[c][1].id)>>

\* C6: redo applied to the result of undo gives back the localActions and
\* the undoneActions undo started from, and its transaction is an update
\* of the very record undo deleted.
C6_UndoThenRedoRestores ==
    \A c \in Clients :
        Len(localActions[c]) > 0 =>
            LET u == undoResult(localActions[c], undoneActions[c])
                r == redoResult(u.localActions, u.undoneActions)
            IN /\ r.localActions = localActions[c]
               /\ r.undoneActions = undoneActions[c]
               /\ u.tx = [op |-> "delete", id |-> Last(localActions[c]).id]
               /\ r.tx = [op |-> "update", id |-> Last(localActions[c]).id,
                          value |-> Last(localActions[c])]

\* undo, its delete applied, then redo: the record is active again behind
\* another one, gone from the shared set, and its update is in flight
C6_Witness ==
    \E c \in Clients :
        /\ Len(localActions[c]) = 2
        /\ undoneActions[c] = <<>>
        /\ data[c] = localActions[c]
        /\ Last(localActions[c]).id \notin Ids(store)
        /\ pending[c] = <<Update(Last(localActions[c]))>>

\* C7: undo with an empty localActions and redo with an empty
\* undoneActions change nothing: no state, no transaction.
C7_EmptyUndoRedoNoOp ==
    [][\A c \in Clients :
         /\ (undo(c) /\ localActions[c] = <<>>) => UNCHANGED vars
         /\ (redo(c) /\ undoneActions[c] = <<>>) => UNCHANGED vars]_vars

\* everything was undone: localActions is empty although the shared set is
\* not, and the next undo finds nothing
C7_Witness ==
    \E c \in Clients :
        /\ localActions[c] = <<>>
        /\ undoneActions[c] # <<>>
        /\ store # <<>>
        /\ pending[c] = <<>>

\* C8: stopDrawing and draw with no gesture open change nothing, and
\* stopDrawing on an open gesture closes it, so that the pointer-leave after
\* a pointer-up finds no gesture.
C8_NoGestureNoOp ==
    [][\A c \in Clients :
         /\ (~isDrawing[c] /\ stopDrawing(c)) => UNCHANGED vars
         /\ \A p \in Points : (~isDrawing[c] /\ draw(c, p)) => UNCHANGED vars
         /\ (isDrawing[c] /\ stopDrawing(c)) =>
               (~isDrawing'[c] /\ currentPath'[c] = <<>>)]_vars

\* a gesture was committed and closed: the pointer-leave that follows does
\* nothing
C8_Witness ==
    \E c \in Clients :
        /\ ~isDrawing[c]
        /\ currentPath[c] = <<>>
        /\ localActions[c] # <<>>
        /\ Last(localActions[c]).id < nextId
        /\ pending[c] = <<Update(Last(localActions[c]))>>

\* C9: no record id is in localActions and in undoneActions of the same
\* client at the same time.
C9_ActiveUndoneDisjoint ==
    \A c \in Clients : Ids(localActions[c]) \cap Ids(undoneActions[c]) = {}

\* C10: a delivered snapshot becomes localActions as it is, whatever
\* localActions held, and undoneActions stays as it was.
C10_SnapshotReplacesActive ==
    [][\A c \in Clients :
         (snapshotDelivered(c) \/ data'[c] # data[c] \/ isLoading'[c] # isLoading[c]) =>
           /\ localActions'[c] = store
           /\ data'[c] = store
           /\ undoneActions'[c] = undoneActions[c]]_vars

\* a snapshot has replaced a localActions that held a record of its own, and
\* the undone stack was kept
C10_Witness ==
    \E c \in Clients :
        /\ ~isLoading[c]
        /\ localActions[c] = data[c]
        /\ data[c] = store
        /\ store # <<>>
        /\ undoneActions[c] # <<>>
        /\ undoneActions[c][1].id \notin Ids(store)

Converged ==
    /\ \A c \in Clients : pending[c] = <<>>
    /\ \A c \in Clients : localActions[c] = store

C12_Convergence == <>[]Converged

\* one participant has undone the record found in the shared set, another
\* has committed a Clear record, and both hold the shared set again
C12_Witness ==
    /\ Converged
    /\ store = <<clearAction(1)>>
    /\ \E c \in Clients : undoneActions[c] = <<Remote1>>
    /\ \A c \in Clients : ~isLoading[c] /\ data[c] = store

\* the segments of non-zero length on a surface, in paint order
Lines(surface) == SelectSeq(surface, LAMBDA s : s.from # s.to)

\* C13: after every step that leaves no gesture open, the lines on the
\* canvas are the lines a full replay of the client's localActions, in its
\* order, paints on a blank canvas.
C13_SurfaceIsReplay ==
    \A c \in Clients :
        ~isDrawing[c] =>
            Lines(canvas[c]) =
                Lines(render(<<>>, localActions[c], color[c], thickness[c]).surface)

\* the sequences of records the program holds, in the orders it could hand
\* them to redrawCanvas
RecordSequences(c) ==
    {localActions[c], data[c], store,
     localActions[c] \o undoneActions[c], undoneActions[c] \o localActions[c]}

\* C14: for every sequence of records and every position k that holds a
\* Clear record, redrawCanvas paints the same surface for the whole
\* sequence as for the records after position k alone.
C14_ClearIsAbsolute ==
    \A c \in Clients : \A s \in RecordSequences(c) : \A k \in 1..Len(s) :
        s[k].type = "clear" =>
            render(<<>>, s, color[c], thickness[c]).surface =
                render(<<>>, SubSeq(s, k + 1, Len(s)), color[c], thickness[c]).surface

\* localActions is a stroke that paints something, a Clear record, and a
\* stroke with a line: the canvas of a replay shows the last stroke alone
C14_Witness ==
    \E c \in Clients :
        /\ Len(localActions[c]) = 3
        /\ render(<<>>, <<localActions[c][1]>>, color[c], thickness[c]).surface # <<>>
        /\ localActions[c][2].type = "clear"
        /\ Lines(render(<<>>, <<localActions[c][3]>>, color[c], thickness[c]).surface) # <<>>
        /\ render(<<>>, localActions[c], color[c], thickness[c]).surface =
              render(<<>>, <<localActions[c][3]>>, color[c], thickness[c]).surface

\* C15: a snapshot delivered while a gesture is open becomes localActions
\* and leaves the gesture open and its buffer as it was; a later draw still
\* appends its point to that buffer, and the pointer-up appends the record
\* that carries the whole buffer behind the records localActions then holds.
C15_SnapshotKeepsGesture ==
    [][\A c \in Clients :
         /\ (snapshotDelivered(c) /\ isDrawing[c]) =>
               /\ currentPath'[c] = currentPath[c]
               /\ isDrawing'[c]
               /\ localActions'[c] = store
         /\ \A p \in Points :
               (draw(c, p) /\ isDrawing[c]) =>
                   /\ currentPath'[c] = currentPath[c] \o <<p>>
                   /\ localActions'[c] = localActions[c]
         /\ (stopDrawing(c) /\ isDrawing[c] /\ currentPath[c] # <<>>) =>
               /\ Len(localActions'[c]) = Len(localActions[c]) + 1
               /\ SubSeq(localActions'[c], 1, Len(localActions[c])) = localActions[c]
               /\ localActions'[c][Len(localActions'[c])].paths = <<currentPath[c]>>]_vars

\* pointer down, pointer move, the snapshot [Remote1] delivered (the canvas
\* is redrawn without the gesture's line), pointer up: the record with both
\* points is active behind Remote1
C15_Witness ==
    \E c \in Clients :
        /\ steps = 4
        /\ ~isDrawing[c]
        /\ data[c] = <<Remote1>>
        /\ Len(localActions[c]) = 2
        /\ localActions[c][1] = Remote1
        /\ Len(localActions[c][2].paths[1]) = 2
        /\ localActions[c][2].paths[1][1] # localActions[c][2].paths[1][2]
        /\ Lines(canvas[c]) = <<>>

\* C16: a startDrawing on an open gesture either leaves the gesture and its
\* buffer as they are (rejected), or commits the buffer as a record, with
\* its update, before the new gesture starts (finalized).
C16_NestedBeginKeepsPoints ==
    [][\A c \in Clients : \A p \in Points :
         (startDrawing(c, p) /\ isDrawing[c] /\ currentPath[c] # <<>>) =>
            \/ /\ isDrawing'[c]
               /\ currentPath'[c] = currentPath[c]
               /\ localActions'[c] = localActions[c]
               /\ pending'[c] = pending[c]
            \/ /\ isDrawing'[c]
               /\ currentPath'[c] = <<p>>
               /\ Len(localActions'[c]) = Len(localActions[c]) + 1
               /\ IsPrefix(localActions[c], localActions'[c])
               /\ Last(localActions'[c]).paths = <<currentPath[c]>>
               /\ pending'[c] = Append(pending[c], Update(Last(localActions'[c])))]_vars

\* C17: the delivery of a snapshot equal to the one the client applied last
\* repaints nothing: the canvas, with the lines an open gesture has painted
\* so far, is what it was.
C17_IdenticalSnapshotNoRepaint ==
    [][\A c \in Clients :
         (snapshotDelivered(c) /\ ~isLoading[c] /\ store = data[c]) =>
             canvas'[c] = canvas[c]]_vars

\* C18: the failure of an update or a delete changes nothing in the
\* component: localActions, undoneActions, the gesture, the settings and
\* the canvas keep the values the handlers gave them, and the transaction
\* is simply gone, so every handler acts afterwards as it would have.
C18_FailureNoRollback ==
    [][\A c \in Clients :
         transactFailed(c) =>
            /\ localActions' = localActions
            /\ undoneActions' = undoneActions
            /\ <<isDrawing, currentPath, color, thickness, isEraser>>' =
                  <<isDrawing, currentPath, color, thickness, isEraser>>
            /\ painted' = painted
            /\ store' = store
            /\ pending'[c] = Tail(pending[c])]_vars

\* the update of a committed stroke has failed: the stroke is still the last
\* active record although the shared set, which the client has seen, does
\* not hold it and nothing is in flight
C18_Witness ==
    \E c \in Clients :
        /\ ~isLoading[c]
        /\ data[c] = store
        /\ pending[c] = <<>>
        /\ localActions[c] # <<>>
        /\ Last(localActions[c]).id < nextId
        /\ Last(localActions[c]).id \notin Ids(store)
        /\ undoneActions[c] = <<>>

\* a step of one of the three settings controls of client c
SettingsChange(c) ==
    \/ \E v \in Colors : setColor(c, v)
    \/ \E v \in ThicknessValues : setThickness(c, v)
    \/ toggleEraser(c)

\* C19: once the first snapshot has arrived, a change of colour, thickness
\* or eraser leaves localActions, undoneActions, the gesture buffer and the
\* shared set as they are and issues no transaction.
C19_SettingsOnlyConfig ==
    [][\A c \in Clients :
         (SettingsChange(c) /\ ~isLoading[c]) =>
            /\ localActions'[c] = localActions[c]
            /\ undoneActions'[c] = undoneActions[c]
            /\ currentPath'[c] = currentPath[c]
            /\ store' = store
            /\ pending' = pending]_vars

\* the ids of the records other participants committed
RemoteIds == UNION {Ids(s) : s \in InitialStores}

\* C20: a participant never has a record of another participant on its
\* undone stack, and never has a delete of such a record in flight.
C20_UndoOnlyOwnRecords ==
    \A c \in Local :
        /\ Ids(undoneActions[c]) \cap RemoteIds = {}
        /\ \A k \in 1..Len(pending[c]) :
              pending[c][k].op = "delete" => pending[c][k].id \notin RemoteIds

====
